---- MODULE Spec2Model ----
(***************************************************************************)
(* Model of the stack-machine evaluator Stack::process and of the signed   *)
(* index arithmetic CollectionLength::index_into                           *)
(* (src/configuration/operation/stack.rs).                                 *)
(*                                                                         *)
(* A value sequence is a TLA+ sequence of strings.  The outcome of a call  *)
(* is a record                                                             *)
(*    [ok, val, err, calls, logs]                                          *)
(* where val is the returned sequence (Ok), err is the chain of error      *)
(* kinds, outermost first (Err), calls lists the inputs this invocation    *)
(* handed to the pipeline driver process_operations, in call order, and    *)
(* logs lists every record sent to the log sink, in emission order.        *)
(***************************************************************************)
EXTENDS Integers, Sequences, FiniteSets, TLC

\* ---------------------------------------------------------------- bounds
MaxLen == 3          \* longest input sequence explored
MaxOff == 4          \* offsets explored for Swap / Indexes: -(MaxOff+1)..MaxOff
MaxCount == 4        \* head / tail / min / max counts explored: 0..MaxCount
MaxIdxLen == 5       \* collection lengths explored for index_into alone
MaxIdxOff == 8       \* offsets explored for index_into alone
WordBits == 16       \* scaled-down width of isize / usize

Vals == {"a", "b", "c"}
Offsets == (0 - (MaxOff + 1))..MaxOff
Counts == 0..MaxCount

\* ---------------------------------------------------------------- helpers
Min(a, b) == IF a < b THEN a ELSE b

SaturatingSub(a, b) == IF b > a THEN 0 ELSE a - b

\* Vec::split_off(at): the receiver keeps [0, at), [at, len) is returned.
SplitOff(v, at) == [keep |-> SubSeq(v, 1, at), off |-> SubSeq(v, at + 1, Len(v))]

ReverseSeq(v) == [k \in 1..Len(v) |-> v[Len(v) + 1 - k]]

RECURSIVE JoinStr(_, _)
JoinStr(v, sep) ==
    IF Len(v) = 0 THEN ""
    ELSE IF Len(v) = 1 THEN v[1]
    ELSE v[1] \o sep \o JoinStr(Tail(v), sep)

RECURSIVE Flatten(_)
Flatten(vv) == IF Len(vv) = 0 THEN <<>> ELSE Head(vv) \o Flatten(Tail(vv))

None == [some |-> FALSE, v |-> 0]
Some(k) == [some |-> TRUE, v |-> k]

\* ---------------------------------------------------------------- results
Ok(v, calls, logs) ==
    [ok |-> TRUE, val |-> v, err |-> <<>>, calls |-> calls, logs |-> logs]

Err(e, calls, logs) ==
    [ok |-> FALSE, val |-> <<>>, err |-> e, calls |-> calls, logs |-> logs]

NoValuesError == <<"NoValuesError">>
OutputNoValuesError == <<"OutputNoValuesError">>
IndexOutOfBounds == <<"IndexOutOfBounds">>
RequirementNotSatisfied == <<"RequirementNotSatisfied">>
InnerOperationError(e) == <<"InnerOperationError">> \o e

\* ---------------------------------------------------------------- indexing
\* isize -> usize cast: the bit pattern is kept, a negative value becomes
\* 2^w + x.
AsUsize(x) == IF x >= 0 THEN x ELSE (2 ^ WordBits) + x

\* Rust's % on isize: remainder truncated towards zero, sign of the dividend.
RemTrunc(a, m) == IF a >= 0 THEN a % m ELSE 0 - ((0 - a) % m)

\* isize::try_from(usize) followed by CollectionLength::new.
CollectionLengthTryFrom(len) ==
    IF len >= 2 ^ (WordBits - 1) \/ len < 0
    THEN [ok |-> FALSE, n |-> 0]
    ELSE [ok |-> TRUE, n |-> len]

index_into(n, idx) ==
    LET computed_idx == IF idx >= 0 THEN AsUsize(idx) ELSE AsUsize(RemTrunc(idx, n))
    IN IF computed_idx >= AsUsize(n)
       THEN [ok |-> FALSE, pos |-> 0]
       ELSE [ok |-> TRUE, pos |-> computed_idx]

\* ---------------------------------------------------------------- operations
\* Constructors of the Stack variants, and of Other, a stand-in for an
\* operation of another family handled by the pipeline driver: it fails when
\* some value of the sequence is in reject, and otherwise returns the sequence
\* unchanged (emit = "same") or an empty one (emit = "none").
Length(min, max) == [type |-> "Length", min |-> min, max |-> max]
Join(separator) == [type |-> "Join", separator |-> separator]
Reverse == [type |-> "Reverse"]
Take(head, tail) == [type |-> "Take", head |-> head, tail |-> tail]
Drop(head, tail) == [type |-> "Drop", head |-> head, tail |-> tail]
Swap(from, to) == [type |-> "Swap", from |-> from, to |-> to]
Indexes(indexes) == [type |-> "Indexes", indexes |-> indexes]
FlatMap(ops) == [type |-> "FlatMap", ops |-> ops]
Select(ops) == [type |-> "Select", ops |-> ops]
Cloned(result, ops) == [type |-> "Cloned", result |-> result, ops |-> ops]
Values(level, id) == [type |-> "Values", level |-> level, id |-> id]
Other(reject, emit) == [type |-> "Other", reject |-> reject, emit |-> emit]

NoId == [some |-> FALSE, v |-> ""]
SomeId(s) == [some |-> TRUE, v |-> s]

RECURSIVE process(_, _)
RECURSIVE process_operations(_, _)

ProcessLength(min, max, input) ==
    IF Len(input) < min THEN Err(RequirementNotSatisfied, <<>>, <<>>)
    ELSE IF Len(input) > max THEN Err(RequirementNotSatisfied, <<>>, <<>>)
    ELSE Ok(input, <<>>, <<>>)

ProcessJoin(separator, input) == Ok(<<JoinStr(input, separator)>>, <<>>, <<>>)

ProcessReverse(input) == Ok(ReverseSeq(input), <<>>, <<>>)

\* Mutant: the tail window is cut from the original sequence instead of from
\* what the head window left.
ProcessTake_FromOriginal(head, tail, input) ==
    LET head_vec == IF head.some
                    THEN SplitOff(input, Min(head.v, Len(input))).keep
                    ELSE <<>>
        tl == IF tail.some
              THEN SplitOff(input, SaturatingSub(Len(input), tail.v)).off
              ELSE <<>>
    IN Ok(head_vec \o tl, <<>>, <<>>)

ProcessTake(head, tail, input) ==
    LET split == IF head.some
                 THEN LET s == SplitOff(input, Min(head.v, Len(input)))
                      IN [head_vec |-> s.keep, tail_vec |-> s.off]
                 ELSE [head_vec |-> <<>>, tail_vec |-> input]
        tl == IF tail.some
              THEN SplitOff(split.tail_vec,
                            SaturatingSub(Len(split.tail_vec), tail.v)).off
              ELSE <<>>
    IN Ok(split.head_vec \o tl, <<>>, <<>>)

\* Mutant: the part split off the end is returned instead of discarded.
ProcessDrop_KeepsSplitOff(head, tail, input) ==
    LET tail_vec == IF head.some
                    THEN SplitOff(input, Min(head.v, Len(input))).off
                    ELSE input
    IN IF tail.some
       THEN Ok(SplitOff(tail_vec, SaturatingSub(Len(tail_vec), tail.v)).off,
               <<>>, <<>>)
       ELSE Ok(tail_vec, <<>>, <<>>)

ProcessDrop(head, tail, input) ==
    LET tail_vec == IF head.some
                    THEN SplitOff(input, Min(head.v, Len(input))).off
                    ELSE input
    IN IF tail.some
       THEN Ok(SplitOff(tail_vec, SaturatingSub(Len(tail_vec), tail.v)).keep,
               <<>>, <<>>)
       ELSE Ok(tail_vec, <<>>, <<>>)

SwapSeq(v, i, j) ==
    [k \in 1..Len(v) |-> IF k = i + 1 THEN v[j + 1]
                         ELSE IF k = j + 1 THEN v[i + 1] ELSE v[k]]

ProcessSwap(from, to, input) ==
    LET input_len == CollectionLengthTryFrom(Len(input))
    IN IF ~input_len.ok THEN Err(IndexOutOfBounds, <<>>, <<>>)
       ELSE IF from # to
       THEN LET f == index_into(input_len.n, from)
                t == index_into(input_len.n, to)
            IN IF ~f.ok THEN Err(IndexOutOfBounds, <<>>, <<>>)
               ELSE IF ~t.ok THEN Err(IndexOutOfBounds, <<>>, <<>>)
               ELSE Ok(SwapSeq(input, f.pos, t.pos), <<>>, <<>>)
       ELSE Ok(input, <<>>, <<>>)

\* indexes.iter().try_fold(vec![], ...): stops at the first offset that does
\* not resolve.
RECURSIVE IndexesFold(_, _, _, _)
IndexesFold(n, input, indexes, acc) ==
    IF Len(indexes) = 0 THEN Ok(acc, <<>>, <<>>)
    ELSE LET r == index_into(n, Head(indexes))
         IN IF ~r.ok THEN Err(IndexOutOfBounds, <<>>, <<>>)
            ELSE IndexesFold(n, input, Tail(indexes), Append(acc, input[r.pos + 1]))

\* Mutant: the fold stops at the first unresolved offset and returns what it
\* has selected so far.
RECURSIVE IndexesFold_Partial(_, _, _, _)
IndexesFold_Partial(n, input, indexes, acc) ==
    IF Len(indexes) = 0 THEN Ok(acc, <<>>, <<>>)
    ELSE LET r == index_into(n, Head(indexes))
         IN IF ~r.ok THEN Ok(acc, <<>>, <<>>)
            ELSE IndexesFold_Partial(n, input, Tail(indexes),
                                     Append(acc, input[r.pos + 1]))

ProcessIndexes_Partial(indexes, input) ==
    IF Len(indexes) = 0 THEN Ok(input, <<>>, <<>>)
    ELSE LET input_len == CollectionLengthTryFrom(Len(input))
         IN IF ~input_len.ok THEN Err(IndexOutOfBounds, <<>>, <<>>)
            ELSE IndexesFold_Partial(input_len.n, input, indexes, <<>>)

ProcessIndexes(indexes, input) ==
    IF Len(indexes) = 0 THEN Ok(input, <<>>, <<>>)
    ELSE LET input_len == CollectionLengthTryFrom(Len(input))
         IN IF ~input_len.ok THEN Err(IndexOutOfBounds, <<>>, <<>>)
            ELSE IndexesFold(input_len.n, input, indexes, <<>>)

\* input.into_iter().try_fold(vec![], ...): stops at the first element whose
\* nested run fails.
RECURSIVE FlatMapFold(_, _, _, _, _)
FlatMapFold(ops, rest, acc, calls, logs) ==
    IF Len(rest) = 0 THEN Ok(Flatten(acc), calls, logs)
    ELSE LET r == process_operations(<<Head(rest)>>, ops)
         IN IF r.ok
            THEN FlatMapFold(ops, Tail(rest), Append(acc, r.val),
                             Append(calls, <<Head(rest)>>), logs \o r.logs)
            ELSE Err(InnerOperationError(r.err),
                     Append(calls, <<Head(rest)>>), logs \o r.logs)

\* Mutant: a failed nested run is skipped, as Select does.
RECURSIVE FlatMapFold_Skip(_, _, _, _, _)
FlatMapFold_Skip(ops, rest, acc, calls, logs) ==
    IF Len(rest) = 0 THEN Ok(Flatten(acc), calls, logs)
    ELSE LET r == process_operations(<<Head(rest)>>, ops)
         IN FlatMapFold_Skip(ops, Tail(rest),
                             IF r.ok THEN Append(acc, r.val) ELSE acc,
                             Append(calls, <<Head(rest)>>), logs \o r.logs)

ProcessFlatMap_SkipFailures(ops, input) ==
    FlatMapFold_Skip(ops, input, <<>>, <<>>, <<>>)

ProcessFlatMap(ops, input) == FlatMapFold(ops, input, <<>>, <<>>, <<>>)

\* input.into_iter().filter_map(... .ok()).flatten().collect(): a failed
\* nested run contributes nothing and the iteration goes on.
RECURSIVE SelectFold(_, _, _, _, _)
SelectFold(ops, rest, acc, calls, logs) ==
    IF Len(rest) = 0 THEN Ok(acc, calls, logs)
    ELSE LET r == process_operations(<<Head(rest)>>, ops)
         IN SelectFold(ops, Tail(rest),
                       IF r.ok THEN acc \o r.val ELSE acc,
                       Append(calls, <<Head(rest)>>), logs \o r.logs)

\* Mutant: the iteration ends at the first failed nested run.
RECURSIVE SelectFold_Abort(_, _, _, _, _)
SelectFold_Abort(ops, rest, acc, calls, logs) ==
    IF Len(rest) = 0 THEN Ok(acc, calls, logs)
    ELSE LET r == process_operations(<<Head(rest)>>, ops)
         IN IF r.ok
            THEN SelectFold_Abort(ops, Tail(rest), acc \o r.val,
                                  Append(calls, <<Head(rest)>>), logs \o r.logs)
            ELSE Ok(acc, Append(calls, <<Head(rest)>>), logs \o r.logs)

ProcessSelect_Abort(ops, input) == SelectFold_Abort(ops, input, <<>>, <<>>, <<>>)

ProcessSelect(ops, input) == SelectFold(ops, input, <<>>, <<>>, <<>>)

\* Mutant: the nested pipeline ran on the input itself, not on a clone, so
\* the original part of the output is the nested result.
ProcessCloned_Aliased(result, ops, input) ==
    LET r == process_operations(input, ops)
    IN IF r.ok
       THEN Ok(r.val \o r.val, <<input>>, r.logs)
       ELSE Err(InnerOperationError(r.err), <<input>>, r.logs)

ProcessCloned(result, ops, input) ==
    LET new_stack == input
        r == process_operations(new_stack, ops)
    IN IF r.ok
       THEN IF result = "AppendResult"
            THEN Ok(input \o r.val, <<new_stack>>, r.logs)
            ELSE Ok(r.val \o input, <<new_stack>>, r.logs)
       ELSE Err(InnerOperationError(r.err), <<new_stack>>, r.logs)

Quoted(v) == [k \in 1..Len(v) |-> "\"" \o v[k] \o "\""]

ProcessValues(level, id, input) ==
    Ok(input, <<>>,
       <<[tag |-> "[3scale-auth/stack]", level |-> level,
          msg |-> "values at " \o (IF id.some THEN id.v ELSE "()") \o ": "
                  \o JoinStr(Quoted(input), ", ")]>>)

Dispatch(op, input) ==
    CASE op.type = "Length" -> ProcessLength(op.min, op.max, input)
      [] op.type = "Join" -> ProcessJoin(op.separator, input)
      [] op.type = "Reverse" -> ProcessReverse(input)
      [] op.type = "Take" -> ProcessTake(op.head, op.tail, input)
      [] op.type = "Drop" -> ProcessDrop(op.head, op.tail, input)
      [] op.type = "Swap" -> ProcessSwap(op.from, op.to, input)
      [] op.type = "Indexes" -> ProcessIndexes(op.indexes, input)
      [] op.type = "FlatMap" -> ProcessFlatMap(op.ops, input)
      [] op.type = "Select" -> ProcessSelect(op.ops, input)
      [] op.type = "Cloned" -> ProcessCloned(op.result, op.ops, input)
      [] op.type = "Values" -> ProcessValues(op.level, op.id, input)

\* Mutant: the entry guard is gone, an empty input falls through to the exit
\* guard.
process_NoEntryGuard(op, input) ==
    LET res == IF Len(input) = 0 THEN Ok(input, <<>>, <<>>) ELSE Dispatch(op, input)
    IN IF res.ok /\ Len(res.val) = 0
       THEN Err(OutputNoValuesError, res.calls, res.logs)
       ELSE res

\* Mutant: the exit guard is gone, an empty result is returned as success.
process_NoExitGuard(op, input) ==
    IF Len(input) = 0 THEN Err(NoValuesError, <<>>, <<>>)
    ELSE Dispatch(op, input)

process(op, input) ==
    IF Len(input) = 0 THEN Err(NoValuesError, <<>>, <<>>)
    ELSE LET res == Dispatch(op, input)
         IN IF res.ok /\ Len(res.val) = 0
            THEN Err(OutputNoValuesError, res.calls, res.logs)
            ELSE res

\* ---------------------------------------------------------------- driver
OperationError(e) == <<"OperationError">> \o e

OtherProcess(reject, emit, v) ==
    IF \E k \in 1..Len(v) : v[k] \in reject
    THEN Err(<<"OtherError">>, <<>>, <<>>)
    ELSE Ok(IF emit = "none" THEN <<>> ELSE v, <<>>, <<>>)

\* The pipeline driver: threads v through ops in order and returns the final
\* sequence or the first failure, wrapped in an OperationError.
process_operations(v, ops) ==
    IF Len(ops) = 0 THEN Ok(v, <<>>, <<>>)
    ELSE LET o == Head(ops)
             r == IF o.type = "Other" THEN OtherProcess(o.reject, o.emit, v)
                  ELSE process(o, v)
         IN IF ~r.ok THEN Err(OperationError(r.err), <<>>, r.logs)
            ELSE LET rest == process_operations(r.val, Tail(ops))
                 IN [rest EXCEPT !.logs = r.logs \o @]

\* ---------------------------------------------------------------- machine
VARIABLES
    input,      \* the value sequence handed to process
    op,         \* the operation applied to it
    res,        \* what process returned
    pc,         \* "ready" before the call, "done" after process,
                \* "indexed" after a bare index_into
    len,        \* magnitude of the CollectionLength given to index_into
    idx,        \* offset given to index_into
    computed    \* what index_into returned

vars == <<input, op, res, pc, len, idx, computed>>

RECURSIVE SeqsUpTo(_, _)
SeqsUpTo(S, n) ==
    IF n = 0 THEN {<<>>}
    ELSE LET shorter == SeqsUpTo(S, n - 1)
         IN shorter \cup {Append(v, x) : v \in {w \in shorter : Len(w) = n - 1}, x \in S}

\* The inputs of the documented examples that the bounded enumeration misses.
TestVectors == {<<"a", "b", "c", "d">>}

Inputs == SeqsUpTo(Vals, MaxLen) \cup TestVectors
IndexLists == SeqsUpTo(Offsets, 2)
Options == {None} \cup {Some(k) : k \in Counts}
Levels == {"Debug", "Info"}
Ids == {NoId, SomeId("x")}
Separators == {"", ","}
CloneModes == {"PrependResult", "AppendResult"}

\* The nested operation lists explored for FlatMap, Select and Cloned.
NestedOps ==
    << <<>>,
       <<Reverse>>,
       <<Length(1, 1)>>,
       <<Length(2, 3)>>,
       <<Drop(Some(1), None)>>,
       <<Other({"b"}, "same")>>,
       <<Other({}, "none")>>,
       <<Other({"a"}, "none")>>,
       <<Indexes(<<0, 0>>)>>,
       <<Indexes(<<0 - 1>>)>>,
       <<Select(<<Other({"b"}, "same")>>)>>,
       <<Values("Debug", NoId), Other({"c"}, "same")>>,
       <<Cloned("AppendResult", <<Reverse>>), Reverse>>,
       <<FlatMap(<<Other({"c"}, "same"), Indexes(<<0, 0>>)>>)>>,
       <<Join(",")>> >>

NoOp == [type |-> "None"]

Init ==
    /\ input \in Inputs
    /\ op = NoOp
    /\ res = Ok(<<>>, <<>>, <<>>)
    /\ pc = "ready"
    /\ len = 0
    /\ idx = 0
    /\ computed = [ok |-> FALSE, pos |-> 0]

\* The call of Stack::process on the chosen input.
Call(o) ==
    /\ op' = o
    /\ res' = process(o, input)
    /\ pc' = "done"
    /\ UNCHANGED <<input, len, idx, computed>>

DoLength ==
    /\ pc = "ready"
    /\ \E min \in Counts, max \in Counts : Call(Length(min, max))

DoJoin ==
    /\ pc = "ready"
    /\ \E sep \in Separators : Call(Join(sep))

DoReverse ==
    /\ pc = "ready"
    /\ Call(Reverse)

DoTake ==
    /\ pc = "ready"
    /\ \E head \in Options, tail \in Options : Call(Take(head, tail))

DoDrop ==
    /\ pc = "ready"
    /\ \E head \in Options, tail \in Options : Call(Drop(head, tail))

DoSwap ==
    /\ pc = "ready"
    /\ \E from \in Offsets, to \in Offsets : Call(Swap(from, to))

DoIndexes ==
    /\ pc = "ready"
    /\ \E list \in IndexLists : Call(Indexes(list))

DoFlatMap ==
    /\ pc = "ready"
    /\ \E i \in 1..Len(NestedOps) : Call(FlatMap(NestedOps[i]))

DoSelect ==
    /\ pc = "ready"
    /\ \E i \in 1..Len(NestedOps) : Call(Select(NestedOps[i]))

DoCloned ==
    /\ pc = "ready"
    /\ \E mode \in CloneModes, i \in 1..Len(NestedOps) :
          Call(Cloned(mode, NestedOps[i]))

DoValues ==
    /\ pc = "ready"
    /\ \E level \in Levels, id \in Ids : Call(Values(level, id))

\* One bare call of CollectionLength::index_into; the length is positive, as
\* it is behind the non-empty guard of process.
DoIndexInto ==
    /\ pc = "ready"
    /\ \E n \in 1..MaxIdxLen, i \in (0 - MaxIdxOff)..MaxIdxOff :
          /\ len' = n
          /\ idx' = i
          /\ computed' = index_into(n, i)
    /\ pc' = "indexed"
    /\ UNCHANGED <<input, op, res>>

Next ==
    \/ DoLength
    \/ DoJoin
    \/ DoReverse
    \/ DoTake
    \/ DoDrop
    \/ DoSwap
    \/ DoIndexes
    \/ DoFlatMap
    \/ DoSelect
    \/ DoCloned
    \/ DoValues
    \/ DoIndexInto

Spec == Init /\ [][Next]_vars

TypeOK ==
    /\ input \in Inputs
    /\ pc \in {"ready", "done", "indexed"}
    /\ res.ok \in BOOLEAN

\* ---------------------------------------------------------------- claims
Done(type) == pc = "done" /\ op.type = type /\ Len(input) > 0

\* C1: index_into of offset i against length n > 0 takes i itself when
\* i >= 0 and the non-negative remainder i mod n when i < 0 (so -1 is the last
\* position, -n the first, -(n+1) the last again), and returns the candidate
\* iff it lies in [0, n), IndexOutOfBounds otherwise.
C1_IndexResolution ==
    pc = "indexed" =>
        LET candidate == IF idx >= 0 THEN idx ELSE idx % len
        IN computed = IF candidate >= 0 /\ candidate < len
                      THEN [ok |-> TRUE, pos |-> candidate]
                      ELSE [ok |-> FALSE, pos |-> 0]

\* C2: on an empty input process fails with NoValuesError whatever the
\* operation, without having called the pipeline driver or the log sink.
C2_EmptyInputNoValues ==
    (pc = "done" /\ Len(input) = 0) => res = Err(NoValuesError, <<>>, <<>>)

C2_Witness ==
    /\ pc = "done"
    /\ Len(input) = 0
    /\ op.type = "Cloned"
    /\ res.err = NoValuesError

\* C3: on a non-empty input a successful process returns a non-empty
\* sequence, and when the variant's own computation ends without error on an
\* empty sequence process fails with OutputNoValuesError.
C3_OutputNonEmpty ==
    (pc = "done" /\ Len(input) > 0) =>
        /\ res.ok => Len(res.val) > 0
        /\ LET own == Dispatch(op, input)
           IN (own.ok /\ Len(own.val) = 0) =>
                  (~res.ok /\ res.err = OutputNoValuesError /\ res.val = <<>>)

C3_Witness ==
    /\ Done("Drop")
    /\ op.head.some
    /\ op.head.v >= Len(input)
    /\ res.err = OutputNoValuesError

\* C4: Swap{from,to} fails with IndexOutOfBounds when from or to does not
\* resolve against the length, equal offsets included, and otherwise returns
\* the input with the two resolved positions exchanged.
C4_SwapResolvesBoth ==
    Done("Swap") =>
        LET f == index_into(Len(input), op.from)
            t == index_into(Len(input), op.to)
        IN IF ~f.ok \/ ~t.ok
           THEN res = Err(IndexOutOfBounds, <<>>, <<>>)
           ELSE /\ res.ok
                /\ Len(res.val) = Len(input)
                /\ res.val[f.pos + 1] = input[t.pos + 1]
                /\ res.val[t.pos + 1] = input[f.pos + 1]
                /\ \A k \in 1..Len(input) :
                       (k # f.pos + 1 /\ k # t.pos + 1) => res.val[k] = input[k]

Window(on, count, n) == IF on THEN Min(count, n) ELSE 0

LastOf(v, count) == SubSeq(v, Len(v) - count + 1, Len(v))

Computes(expected) ==
    IF Len(expected) = 0
    THEN res = Err(OutputNoValuesError, <<>>, <<>>)
    ELSE res = Ok(expected, <<>>, <<>>)

\* C5 as stated: Take{head,tail} returns the first min(head, n) elements
\* followed by the last min(tail, n) elements, both windows cut from the
\* original sequence, so that overlapping elements appear twice.
C5_TakeIndependentWindows ==
    Done("Take") =>
        LET n == Len(input)
            h == Window(op.head.some, op.head.v, n)
            t == Window(op.tail.some, op.tail.v, n)
        IN Computes(SubSeq(input, 1, h) \o LastOf(input, t))

\* C5 amended: Take{head,tail} returns the first h = min(head, n) elements
\* (none if head is absent) followed by the last min(tail, n - h) elements
\* (none if tail is absent): the tail window is cut from what the head window
\* left, so no element appears twice.
C5_TakeTailFromRemainder ==
    Done("Take") =>
        LET n == Len(input)
            h == Window(op.head.some, op.head.v, n)
            t == Window(op.tail.some, op.tail.v, n - h)
        IN Computes(SubSeq(input, 1, h) \o LastOf(input, t))

C5_Witness ==
    /\ Done("Take")
    /\ op.head.some /\ op.tail.some
    /\ op.head.v > 0 /\ op.head.v < Len(input)
    /\ op.tail.v > 0 /\ op.tail.v < Len(input)
    /\ op.head.v + op.tail.v > Len(input)
    /\ res.ok
    /\ res.val = input

\* C6: Drop{head,tail} returns the slice s[h .. n - t) with h = min(head, n)
\* and t = min(tail, n - h) (0 for an absent count), and fails with
\* OutputNoValuesError when that slice is empty.
C6_DropSlice ==
    Done("Drop") =>
        LET n == Len(input)
            h == Window(op.head.some, op.head.v, n)
            t == Window(op.tail.some, op.tail.v, n - h)
        IN Computes(SubSeq(input, h + 1, n - t))

C6_Witness ==
    /\ Done("Drop")
    /\ input = <<"a", "b", "c", "d">>
    /\ op.head = Some(1)
    /\ op.tail = Some(1)
    /\ res.ok
    /\ res.val = <<"b", "c">>

Singletons(v) == [k \in 1..Len(v) |-> <<v[k]>>]

NestedRuns(ops, v) == [k \in 1..Len(v) |-> process_operations(<<v[k]>>, ops)]

Succeeded(runs) == [k \in 1..Len(runs) |-> IF runs[k].ok THEN runs[k].val ELSE <<>>]

\* C7: Select runs the nested pipeline on [v] for every element v, also
\* after a failed run, returns the concatenation of the outputs of the runs
\* that succeeded, and fails only with OutputNoValuesError, exactly when that
\* concatenation is empty.
C7_SelectFilters ==
    Done("Select") =>
        LET runs == NestedRuns(op.ops, input)
            kept == Flatten(Succeeded(runs))
        IN /\ res.calls = Singletons(input)
           /\ IF Len(kept) = 0
              THEN ~res.ok /\ res.err = OutputNoValuesError
              ELSE res.ok /\ res.val = kept

C7_Witness ==
    /\ Done("Select")
    /\ Len(input) = 3
    /\ ~process_operations(<<input[1]>>, op.ops).ok
    /\ process_operations(<<input[2]>>, op.ops).ok
    /\ ~process_operations(<<input[3]>>, op.ops).ok
    /\ res.ok
    /\ res.val = <<input[2]>>

\* C8: Cloned calls the nested pipeline once, on a copy of the input s; on
\* success with r it returns s \o r (AppendResult) or r \o s (PrependResult),
\* on failure it fails with InnerOperationError wrapping the nested failure.
C8_ClonedRecombines ==
    Done("Cloned") =>
        LET r == process_operations(input, op.ops)
        IN /\ res.calls = <<input>>
           /\ IF r.ok
              THEN /\ res.ok
                   /\ res.val = IF op.result = "AppendResult"
                                THEN input \o r.val
                                ELSE r.val \o input
              ELSE /\ ~res.ok
                   /\ res.val = <<>>
                   /\ res.err = <<"InnerOperationError">> \o r.err

C8_Witness ==
    /\ Done("Cloned")
    /\ input = <<"a", "b">>
    /\ op.result = "PrependResult"
    /\ Len(op.ops) = 1
    /\ op.ops[1].type = "Reverse"
    /\ res.ok
    /\ res.val = <<"b", "a", "a", "b">>

FirstFailure(runs) ==
    IF \E k \in 1..Len(runs) : ~runs[k].ok
    THEN CHOOSE k \in 1..Len(runs) : ~runs[k].ok /\ \A j \in 1..(k - 1) : runs[j].ok
    ELSE 0

\* C9: FlatMap runs the nested pipeline on [v] for the elements in input
\* order; at the first failing element it stops, runs no later element and
\* fails with InnerOperationError wrapping that failure; when every run
\* succeeds it returns the concatenation of the outputs in input order.
C9_FlatMapShortCircuits ==
    Done("FlatMap") =>
        LET runs == NestedRuns(op.ops, input)
            k == FirstFailure(runs)
        IN IF k > 0
           THEN /\ ~res.ok
                /\ res.val = <<>>
                /\ res.err = <<"InnerOperationError">> \o runs[k].err
                /\ res.calls = SubSeq(Singletons(input), 1, k)
           ELSE /\ res.calls = Singletons(input)
                /\ LET all == Flatten([j \in 1..Len(runs) |-> runs[j].val])
                   IN IF Len(all) = 0
                      THEN ~res.ok /\ res.err = OutputNoValuesError
                      ELSE res.ok /\ res.val = all

C9_Witness ==
    /\ Done("FlatMap")
    /\ Len(input) = 3
    /\ process_operations(<<input[1]>>, op.ops).ok
    /\ ~process_operations(<<input[2]>>, op.ops).ok
    /\ process_operations(<<input[3]>>, op.ops).ok
    /\ ~res.ok
    /\ res.err[1] = "InnerOperationError"
    /\ res.calls = <<<<input[1]>>, <<input[2]>>>>

\* C10: Indexes(list) returns the input when list is empty; otherwise, when
\* every offset resolves, the k-th output is the input element at the position
\* index_into gives for list[k]; otherwise it fails with IndexOutOfBounds.
C10_IndexesSelects ==
    Done("Indexes") =>
        LET list == op.indexes
            at == [k \in 1..Len(list) |-> index_into(Len(input), list[k])]
        IN IF Len(list) = 0
           THEN res = Ok(input, <<>>, <<>>)
           ELSE IF \A k \in 1..Len(list) : at[k].ok
           THEN /\ res.ok
                /\ Len(res.val) = Len(list)
                /\ \A k \in 1..Len(list) : res.val[k] = input[at[k].pos + 1]
           ELSE res = Err(IndexOutOfBounds, <<>>, <<>>)

C10_Witness ==
    /\ Done("Indexes")
    /\ Len(input) = 3
    /\ op.indexes = <<2, 0 - 3>>
    /\ res.ok
    /\ res.val = <<input[3], input[1]>>
    /\ input[3] # input[1]

====
